---- MODULE Spec2Model ----
(***************************************************************************)
(* Model of src/app.py: the image format converter.                        *)
(*                                                                         *)
(* process(input_list, ext, quality) walks the batch and calls             *)
(* convert_format for every item; convert_format derives the cache path    *)
(* caches/<stem><ext>, opens the input, looks the extension up in          *)
(* SUPPORTED_FORMATS, saves through the imaging backend, reopens the file  *)
(* it wrote and returns the RGBA preview with the path.                    *)
(*                                                                         *)
(* File names are sequences of one-character strings so that pathlib's     *)
(* stem, the "{}{}" concatenation and the backend's splitext/lower are     *)
(* computed, not assumed.  The extension ".p" stands for ".png", ".w" for  *)
(* ".webp", ".P" for ".PNG", ".x" for an extension nobody knows.           *)
(***************************************************************************)
EXTENDS Integers, Sequences, FiniteSets, TLC

\* Total number of batch items submitted over one behaviour.
MaxItems == 2

\* Slider range of the presentation layer (gr.Slider minimum / maximum).
QualityMin == 1
QualityMax == 100
\* Default of the quality parameter.
DefaultQuality == 80

None == "None"

(***************************************************************************)
(* Strings as character sequences                                          *)
(***************************************************************************)
Max(S) == CHOOSE x \in S : \A y \in S : y <= x

\* str.rfind, 1-based; 0 when c does not occur.
RFind(s, c) ==
    LET I == {k \in 1..Len(s) : s[k] = c}
    IN  IF I = {} THEN 0 ELSE Max(I)

\* str.lower on the characters the model uses.
LowerChar(c) ==
    CASE c = "P" -> "p"
      [] c = "W" -> "w"
      [] OTHER   -> c

Lower(s) == [k \in 1..Len(s) |-> LowerChar(s[k])]

\* PurePath.name: the final path component.
Name(path) == SubSeq(path, RFind(path, "/") + 1, Len(path))

\* PurePath.stem: the name without its last suffix; a leading or a
\* trailing dot starts no suffix.
Stem(path) ==
    LET name == Name(path)
        d    == RFind(name, ".")
    IN  IF 1 < d /\ d < Len(name) THEN SubSeq(name, 1, d - 1) ELSE name

\* os.path.splitext(filename)[1]: from the last dot of the final component,
\* unless only dots precede it there.
SplitExt(filename) ==
    LET s == RFind(filename, "/")
        d == RFind(filename, ".")
    IN  IF d > s /\ \E k \in (s + 1)..(d - 1) : filename[k] # "."
        THEN SubSeq(filename, d, Len(filename))
        ELSE <<>>

(***************************************************************************)
(* The environment: input files, the format registry, the codec            *)
(***************************************************************************)
NoImage == [px |-> 0, mode |-> "none"]

InA1      == <<"d", "/", "a", ".", "p">>
InA2      == <<"e", "/", "a", ".", "w">>
InAP      == <<"a", ".", "p", ".", "w">>
InMissing == <<"m", ".", "p">>

Inputs == {InA1, InA2, InAP, InMissing}

\* What Image.open finds at an input path: InA1 and InA2 share the stem "a"
\* and hold different pictures, InAP has the stem "a.p", InMissing is no
\* readable image.
InputFile(path) ==
    CASE path = InA1 -> [px |-> 1, mode |-> "RGB"]
      [] path = InA2 -> [px |-> 2, mode |-> "L"]
      [] path = InAP -> [px |-> 3, mode |-> "RGB"]
      [] OTHER       -> NoImage

ExtP  == <<".", "p">>
ExtW  == <<".", "w">>
ExtUp == <<".", "P">>
ExtPP == <<".", "p", ".", "p">>
ExtX  == <<".", "x">>

\* The target extensions a caller may hand to process.
Exts == {ExtP, ExtW, ExtUp, ExtPP, ExtX}

Qualities == {QualityMin - 1, QualityMin, QualityMax, QualityMax + 1}

\* Image.registered_extensions(): extension -> format name, keys in lower
\* case with the leading dot.
SUPPORTED_FORMATS == (ExtP :> "PNG") @@ (ExtW :> "WEBP")

\* Image.save with format None: the format is taken from the lower-cased
\* extension of the file name, looked up in the same table.
BackendFormat(filename) ==
    LET e == Lower(SplitExt(filename))
    IN  IF e \in DOMAIN SUPPORTED_FORMATS THEN SUPPORTED_FORMATS[e] ELSE None

\* The bytes the encoder writes are determined by the picture, the format
\* and the quality.  Decoding gives a picture whose pixels depend on all
\* three (it is not the picture that was encoded) and that knows its format.
\* Image.convert("RGBA") changes the mode.
Encode(im, fmt, q) == [px |-> im.px, mode |-> im.mode, fmt |-> fmt, q |-> q]
Decode(bytes)      == [px |-> <<bytes.px, bytes.fmt, bytes.q>>,
                       mode |-> bytes.mode, format |-> bytes.fmt]
ToRGBA(im)         == [im EXCEPT !.mode = "RGBA"]

\* A file left behind by a write that did not finish.
Partial == [px |-> 0, mode |-> "none", fmt |-> "partial", q |-> 0]

CacheRoot == <<"caches">>

\* Path("caches") / "{}{}".format(Path(input_image).stem, ext)
\* Faulty variant of CachePath: keeps the input's own suffix in the name.
CachePathUsesName(input, e) == CacheRoot \o <<"/">> \o Name(input) \o e
CachePath(input, e) == CacheRoot \o <<"/">> \o Stem(input) \o e

(***************************************************************************)
(* State                                                                   *)
(***************************************************************************)
VARIABLES
    cachesDir,   \* whether the directory caches/ exists
    cache,       \* the files under caches/: path -> bytes
    writer,      \* history: path -> <<stem, ext>> of the conversion that last wrote it
    pc,          \* "idle", or the statement process / convert_format is at
    input_list, ext, quality,   \* the arguments of the current (or last) process call
    i,           \* position of the for loop in input_list
    out_files, out_images,      \* locals of process
    file_path, img, format, img_reopen,   \* locals of convert_format
    result,      \* what the last process call gave its caller
    items,       \* number of items submitted so far
    failed,      \* history: index of the item whose conversion raised in this call, or 0
    log          \* history: the events of the current call

vars == <<cachesDir, cache, writer, pc, input_list, ext, quality, i,
          out_files, out_images, file_path, img, format, img_reopen,
          result, items, failed, log>>

NoResult == [kind |-> "none", exc |-> None, files |-> <<>>, images |-> <<>>]

EmptyCache == [p \in {} |-> Partial]

Event(e, q, ok) == [ev |-> e, idx |-> i, q |-> q, ok |-> ok]

Init ==
    /\ cachesDir = FALSE
    /\ cache = EmptyCache
    /\ writer = EmptyCache
    /\ pc = "idle"
    /\ input_list = <<>>
    /\ ext = ExtW
    /\ quality = DefaultQuality
    /\ i = 0
    /\ out_files = <<>>
    /\ out_images = <<>>
    /\ file_path = <<>>
    /\ img = NoImage
    /\ format = None
    /\ img_reopen = NoImage
    /\ result = NoResult
    /\ items = 0
    /\ failed = 0
    /\ log = <<>>

convLocals == <<file_path, img, format, img_reopen>>
args == <<input_list, ext, quality>>
disk == <<cachesDir, cache, writer>>

(***************************************************************************)
(* process                                                                 *)
(***************************************************************************)
\* The caller invokes process(input_list, ext, quality); out_files and
\* out_images start empty and the loop stands before the first item.
Call ==
    /\ pc = "idle"
    /\ \E n \in 0..(MaxItems - items) :
       \E paths \in [1..n -> Inputs] :
          /\ input_list' = [k \in 1..n |-> <<paths[k], None>>]
          /\ items' = items + n
    /\ \E e \in Exts : ext' = e
    /\ \E q \in Qualities : quality' = q
    /\ i' = 1
    /\ out_files' = <<>>
    /\ out_images' = <<>>
    /\ file_path' = <<>>
    /\ img' = NoImage
    /\ format' = None
    /\ img_reopen' = NoImage
    /\ result' = NoResult
    /\ failed' = 0
    /\ log' = <<>>
    /\ pc' = "loop"
    /\ UNCHANGED disk

\* An exception leaves convert_format and process: nothing catches it, the
\* caller gets the exception and none of the locals.
\* Faulty variant of Propagate: the loop catches the exception and goes on.
PropagateCatchAndContinue(exc) ==
    /\ pc' = "loop"
    /\ i' = i + 1
    /\ UNCHANGED <<result, out_files, out_images>>
    /\ file_path' = <<>>
    /\ img' = NoImage
    /\ format' = None
    /\ img_reopen' = NoImage
Propagate(exc) ==
    /\ pc' = "idle"
    /\ result' = [kind |-> "raised", exc |-> exc, files |-> <<>>, images |-> <<>>]
    /\ out_files' = <<>>
    /\ out_images' = <<>>
    /\ file_path' = <<>>
    /\ img' = NoImage
    /\ format' = None
    /\ img_reopen' = NoImage
    /\ UNCHANGED i

\* for path in input_list: the next item enters convert_format(path[0], ...).
LoopNext ==
    /\ pc = "loop"
    /\ i <= Len(input_list)
    /\ pc' = "open"
    /\ log' = Append(log, Event("start", -1, TRUE))
    /\ UNCHANGED <<disk, args, i, out_files, out_images, convLocals,
                   result, items, failed>>

\* The loop is exhausted: return out_files, out_images.  The previews are
\* the pictures decoded while their items were converted.
\* Faulty variant of Return: the previews are decoded only at the return.
ReturnLazyPreviews ==
    /\ pc = "loop"
    /\ i > Len(input_list)
    /\ result' = [kind |-> "returned", exc |-> None, files |-> out_files,
                  images |-> [k \in 1..Len(out_files) |->
                                 ToRGBA(Decode(cache[out_files[k]]))]]
    /\ out_files' = <<>>
    /\ out_images' = <<>>
    /\ pc' = "idle"
    /\ UNCHANGED <<disk, args, i, convLocals, items, failed, log>>
Return ==
    /\ pc = "loop"
    /\ i > Len(input_list)
    /\ result' = [kind |-> "returned", exc |-> None,
                  files |-> out_files, images |-> out_images]
    /\ out_files' = <<>>
    /\ out_images' = <<>>
    /\ pc' = "idle"
    /\ UNCHANGED <<disk, args, i, convLocals, items, failed, log>>

(***************************************************************************)
(* convert_format                                                          *)
(***************************************************************************)
\* No handler runs between the raise and the caller: the files already in
\* caches/ stay as they are.
\* Faulty variant of NoCleanup: the files of the batch are removed.
CleanupBatch ==
    LET keep == {p \in DOMAIN cache : \A k \in 1..Len(out_files) : out_files[k] # p}
    IN  /\ cache' = [p \in keep |-> cache[p]]
        /\ writer' = [p \in keep |-> writer[p]]
NoCleanup == UNCHANGED <<cache, writer>>

\* file_path is computed and caches/ is made (exist_ok); then Image.open.
OpenInput ==
    /\ pc = "open"
    /\ cachesDir' = TRUE
    /\ LET input == input_list[i][1]
       IN  IF InputFile(input) # NoImage
           THEN /\ file_path' = CachePath(input, ext)
                /\ img' = InputFile(input)
                /\ pc' = "resolve"
                /\ UNCHANGED <<cache, writer, i, out_files, out_images, format,
                               img_reopen, result, failed, log>>
           ELSE /\ Propagate("FileNotFoundError")
                /\ NoCleanup
                /\ failed' = i
                /\ log' = Append(log, Event("raise", -1, FALSE))
    /\ UNCHANGED <<args, items>>

\* format = SUPPORTED_FORMATS[ext] when ext is a key, else None.  For None
\* a gr.Error object is built and dropped: it is not raised, so control
\* reaches the save either way.
Resolve ==
    /\ pc = "resolve"
    /\ format' = IF ext \in DOMAIN SUPPORTED_FORMATS
                 THEN SUPPORTED_FORMATS[ext] ELSE None
    /\ pc' = "save"
    /\ UNCHANGED <<disk, args, i, out_files, out_images, file_path, img,
                   img_reopen, result, items, failed, log>>

\* The keyword argument quality=quality of img.save.
\* Faulty variant of PassedQuality: the default instead of the argument.
PassedQualityDefault == DefaultQuality
PassedQuality == quality

\* After the save returns the next statement is the reopen of the same call.
\* Faulty variant of SaveDone: the loop goes on before the read-back.
SaveDoneDeferReopen ==
    /\ pc' = "loop"
    /\ i' = i + 1
    /\ out_files' = Append(out_files, file_path)
    /\ out_images' = Append(out_images, NoImage)
SaveDone ==
    /\ pc' = "reopen"
    /\ UNCHANGED <<i, out_files, out_images>>

\* img.save(file_path, format, quality=quality).  With format None the
\* backend takes the format from the file name and raises ValueError, before
\* it opens the file, when it knows none.  Otherwise it opens the file for
\* writing and encodes; an OSError there leaves the file as it was (the open
\* failed, or a file the call created was removed again) or truncated.
Save ==
    /\ pc = "save"
    /\ LET fmt == IF format # None THEN format ELSE BackendFormat(file_path)
           who == <<Stem(input_list[i][1]), ext>>
       IN  \/ /\ fmt = None
              /\ Propagate("ValueError")
              /\ NoCleanup
              /\ failed' = i
              /\ log' = Append(log, Event("save", PassedQuality, FALSE))
           \/ /\ fmt # None
              /\ cache' = (file_path :> Encode(img, fmt, PassedQuality)) @@ cache
              /\ writer' = (file_path :> who) @@ writer
              /\ SaveDone
              /\ log' = Append(log, Event("save", PassedQuality, TRUE))
              /\ UNCHANGED <<file_path, img, format, img_reopen, result, failed>>
           \/ /\ fmt # None
              /\ \/ UNCHANGED <<cache, writer>>
                 \/ /\ cache' = (file_path :> Partial) @@ cache
                    /\ writer' = (file_path :> who) @@ writer
              /\ Propagate("OSError")
              /\ failed' = i
              /\ log' = Append(log, Event("save", PassedQuality, FALSE))
    /\ UNCHANGED <<cachesDir, args, items>>

\* Image.open(file_path) followed by convert("RGBA"), which decodes.
\* Faulty variant of ReopenedImage: the picture in memory, not the file.
ReopenedImageFromMemory == img
ReopenedImage == Decode(cache[file_path])

Reopen ==
    /\ pc = "reopen"
    /\ \/ /\ img_reopen' = ToRGBA(ReopenedImage)
          /\ pc' = "append"
          /\ log' = Append(log, Event("read", -1, TRUE))
          /\ UNCHANGED <<i, out_files, out_images, file_path, img, format,
                         result, failed>>
       \/ /\ Propagate("UnidentifiedImageError")
          /\ failed' = i
          /\ log' = Append(log, Event("read", -1, FALSE))
    /\ UNCHANGED <<disk, args, items>>

\* list.append
\* Faulty variant of Collect: inserts at the front.
CollectFront(seq, x) == <<x>> \o seq
Collect(seq, x) == Append(seq, x)

\* return img_reopen, str(file_path); process appends both and goes on.
ConvertReturn ==
    /\ pc = "append"
    /\ out_files' = Collect(out_files, file_path)
    /\ out_images' = Collect(out_images, img_reopen)
    /\ i' = i + 1
    /\ file_path' = <<>>
    /\ img' = NoImage
    /\ format' = None
    /\ img_reopen' = NoImage
    /\ log' = Append(log, Event("end", -1, TRUE))
    /\ pc' = "loop"
    /\ UNCHANGED <<disk, args, result, items, failed>>

Next ==
    \/ Call
    \/ LoopNext
    \/ OpenInput
    \/ Resolve
    \/ Save
    \/ Reopen
    \/ ConvertReturn
    \/ Return

Spec == Init /\ [][Next]_vars

TypeOK ==
    /\ cachesDir \in BOOLEAN
    /\ pc \in {"idle", "loop", "open", "resolve", "save", "reopen", "append"}
    /\ ext \in Exts
    /\ quality \in Qualities \cup {DefaultQuality}
    /\ items \in 0..MaxItems
    /\ DOMAIN cache = DOMAIN writer
    /\ (DOMAIN cache # {} => cachesDir)

(***************************************************************************)
(* Properties                                                              *)
(***************************************************************************)
ItemInput(k) == input_list[k][1]
ItemPath(k) == CachePath(ItemInput(k), ext)

\* The format the save of item k encodes with.
ItemFormat(k) ==
    IF ext \in DOMAIN SUPPORTED_FORMATS
    THEN SUPPORTED_FORMATS[ext] ELSE BackendFormat(ItemPath(k))

\* The bytes a successful conversion of item k writes, and its preview.
ItemBytes(k) == Encode(InputFile(ItemInput(k)), ItemFormat(k), quality)
ItemPreview(k) == ToRGBA(Decode(ItemBytes(k)))

\* The last of the items 1..n that has item k's cache path.
LastAt(k, n) == Max({l \in 1..n : ItemPath(l) = ItemPath(k)})

SaveCalls == {n \in DOMAIN log : log[n].ev = "save"}

\* C1: a process call that returns gives as many output paths and previews
\* as the batch has items (none for the empty batch), and the k-th path and
\* the k-th preview are those of converting the k-th input.
C1_OrderPreserved ==
    result.kind = "returned" =>
        /\ Len(result.files) = Len(input_list)
        /\ Len(result.images) = Len(input_list)
        /\ \A k \in 1..Len(input_list) :
              /\ result.files[k] = ItemPath(k)
              /\ result.images[k] = ItemPreview(k)

C1_Witness ==
    /\ result.kind = "returned"
    /\ Len(input_list) = 2
    /\ ItemInput(1) = InAP
    /\ ItemInput(2) = InA1
    /\ result.files[1] # result.files[2]

\* C2 (what the claim implies): with a target extension that is no key of
\* the registry no conversion gets as far as a completed write or a
\* returned result: no save succeeds, so no file is created, and no
\* non-empty batch returns.
C2_FormatRejection ==
    (ext \notin DOMAIN SUPPORTED_FORMATS /\ Len(input_list) > 0) =>
        /\ \A n \in SaveCalls : ~log[n].ok
        /\ pc \notin {"reopen", "append"}
        /\ result.kind # "returned"

\* C3: one stem and one extension give one cache path: no two files of the
\* cache come from the same (stem, extension); when a conversion returns,
\* its path is caches/<stem><ext>, every earlier item of the batch with the
\* same stem got the same path, and the file there holds this conversion's
\* write.
C3_DeterministicPath ==
    /\ \A p, q \in DOMAIN cache : writer[p] = writer[q] => p = q
    /\ pc = "append" =>
          /\ file_path = CacheRoot \o <<"/">> \o Stem(ItemInput(i)) \o ext
          /\ file_path \in DOMAIN cache
          /\ cache[file_path] = ItemBytes(i)
          /\ \A j \in 1..(i - 1) :
                Stem(ItemInput(j)) = Stem(ItemInput(i)) => out_files[j] = file_path

C3_Witness ==
    /\ pc = "append"
    /\ i = 2
    /\ ItemInput(1) = InA1
    /\ ItemInput(2) = InA2
    /\ out_files[1] = file_path
    /\ cache[file_path].px = InputFile(InA2).px
    /\ Cardinality(DOMAIN cache) = 1

\* C4: once the conversion of item k has raised, the process call is over,
\* its caller has the exception and no paths or previews, and no item
\* after k was started.
C4_FailFast ==
    failed # 0 =>
        /\ pc = "idle"
        /\ result.kind = "raised"
        /\ result.files = <<>>
        /\ result.images = <<>>
        /\ \A n \in DOMAIN log : log[n].idx <= failed

C4_Witness ==
    /\ failed = 2
    /\ Len(input_list) = 2
    /\ result.kind = "raised"
    /\ ItemPath(1) \in DOMAIN cache

\* C5: with a registered extension, a convert_format call that returns has
\* written the encoding of its input at the cache path, has then read that
\* file back, and returns that path with the RGBA picture decoded from it.
C5_RoundTrip ==
    (pc = "append" /\ ext \in DOMAIN SUPPORTED_FORMATS) =>
        /\ file_path = ItemPath(i)
        /\ file_path \in DOMAIN cache
        /\ cache[file_path] = Encode(InputFile(ItemInput(i)), SUPPORTED_FORMATS[ext], quality)
        /\ img_reopen = ToRGBA(Decode(cache[file_path]))
        /\ Len(log) >= 2
        /\ log[Len(log) - 1] = [ev |-> "save", idx |-> i, q |-> quality, ok |-> TRUE]
        /\ log[Len(log)] = [ev |-> "read", idx |-> i, q |-> -1, ok |-> TRUE]

C5_Witness ==
    /\ pc = "append"
    /\ ext = ExtW
    /\ ItemInput(i) = InA2
    /\ img_reopen = [px |-> <<2, "WEBP", quality>>, mode |-> "RGBA", format |-> "WEBP"]

\* C6 (as claimed): the encoder is never handed a quality below 1 or
\* above 100.
C6_QualityInRange ==
    \A n \in SaveCalls : QualityMin <= log[n].q /\ log[n].q <= QualityMax

\* C6 (amended): convert_format hands the encoder the quality it was given,
\* unchanged.
C6_QualityPassedThrough ==
    \A n \in SaveCalls : log[n].q = quality

C6_Witness ==
    /\ pc = "append"
    /\ quality = QualityMax + 1
    /\ cache[file_path].q = QualityMax + 1

\* C7 (as claimed): a step never deletes a cache entry, and it changes an
\* entry only as the conversion of the same stem and the same extension
\* that wrote the entry.
C7_OverwriteOnlyBySameStemExt ==
    [][\A p \in DOMAIN cache :
          /\ p \in DOMAIN cache'
          /\ cache'[p] # cache[p] =>
                /\ pc = "save"
                /\ p = file_path
                /\ writer[p] = <<Stem(ItemInput(i)), ext>>]_vars

\* The frame part of C7, which the code keeps: entries are never deleted,
\* and only the save of the running conversion changes one, at its own path.
C7_Frame ==
    [][\A p \in DOMAIN cache :
          /\ p \in DOMAIN cache'
          /\ cache'[p] # cache[p] => (pc = "save" /\ p = file_path)]_vars

\* C8: the events of a call come in item order, item k+1 starts only after
\* the write and then the read-back of item k are done, and at most one
\* conversion is in flight.
InFlight ==
    {k \in 1..Len(input_list) :
        /\ \E n \in DOMAIN log : log[n].ev = "start" /\ log[n].idx = k
        /\ \A n \in DOMAIN log : ~(log[n].ev = "end" /\ log[n].idx = k)
        /\ failed # k}

C8_Sequential ==
    /\ \A m, n \in DOMAIN log : m < n => log[m].idx <= log[n].idx
    /\ \A n \in DOMAIN log :
          (log[n].ev = "start" /\ log[n].idx > 1) =>
              \E w, r \in 1..(n - 1) :
                 /\ w < r
                 /\ log[w] = [ev |-> "save", idx |-> log[n].idx - 1, q |-> log[w].q, ok |-> TRUE]
                 /\ log[r] = [ev |-> "read", idx |-> log[n].idx - 1, q |-> -1, ok |-> TRUE]
    /\ Cardinality(InFlight) <= 1
    /\ (pc \in {"open", "resolve", "save", "reopen", "append"} => InFlight = {i})

C8_Witness ==
    /\ pc = "save"
    /\ i = 2
    /\ InFlight = {2}

C10_NoRollbackAsClaimed ==
    failed # 0 =>
        /\ result.kind = "raised"
        /\ \A j \in 1..(failed - 1) :
              /\ ItemPath(j) \in DOMAIN cache
              /\ cache[ItemPath(j)] = ItemBytes(LastAt(j, failed - 1))

\* C10 (amended): the same, except for the file at the failing item's own
\* cache path: when that item raised in its save the file may be left
\* truncated, and when it raised in its read-back the file holds that
\* item's write.
C10_NoRollback ==
    failed # 0 =>
        /\ result.kind = "raised"
        /\ \A j \in 1..(failed - 1) :
              /\ ItemPath(j) \in DOMAIN cache
              /\ \/ cache[ItemPath(j)] = ItemBytes(LastAt(j, failed - 1))
                 \/ /\ ItemPath(j) = ItemPath(failed)
                    /\ log[Len(log)].ev = "save"
                    /\ cache[ItemPath(j)] = Partial
                 \/ /\ ItemPath(j) = ItemPath(failed)
                    /\ log[Len(log)].ev = "read"
                    /\ cache[ItemPath(j)] = ItemBytes(failed)

C10_Witness ==
    /\ failed = 2
    /\ ItemInput(1) = InA1
    /\ ItemInput(2) = InMissing
    /\ result.kind = "raised"
    /\ cache[ItemPath(1)] = ItemBytes(1)

====
